---------------------------- MODULE Spec2Model ----------------------------
(***************************************************************************)
(* A model of src/src/etl_pipeline.py: the creative analytics ETL.         *)
(*                                                                         *)
(* Tables (pandas DataFrames) are records [cols, rows]: cols is the        *)
(* sequence of column labels, rows the sequence of rows, each row a        *)
(* sequence of cells aligned with cols.  A cell is a tagged record:        *)
(* NaN (the missing marker), Num(n), Frac(n, d), Str(s), Date(y, m, d) or  *)
(* Bool(b).  Text is a sequence of one-character strings, so that          *)
(* stripping, lower-casing and the campaign-name pattern are computed on   *)
(* the characters.  Numbers are exact (integers and fractions, and the     *)
(* infinities a division by zero gives): float rounding is outside the     *)
(* model.                                                                  *)
(*                                                                         *)
(* pandas semantics are those of pandas 1.x / 2.x, which the script was    *)
(* written for: astype(str) turns a missing cell into the text "nan",      *)
(* merge treats two missing keys as equal, sum and mean skip NaN.          *)
(***************************************************************************)
EXTENDS Integers, Sequences, FiniteSets, TLC

(***************************************************************************)
(* Bounds of the model.                                                    *)
(***************************************************************************)
\* the largest number of rows of a loaded sheet
MaxRows == 2

(***************************************************************************)
(* Cells.                                                                  *)
(***************************************************************************)
NaN == [k |-> "nan"]
Num(n) == [k |-> "num", v |-> n]
Frac(n, d) == [k |-> "frac", n |-> n, d |-> d]
Str(s) == [k |-> "str", v |-> s]
Date(y, m, d) == [k |-> "date", v |-> <<y, m, d>>]
Bool(b) == [k |-> "bool", v |-> b]

isna(c) == c.k = "nan"

(***************************************************************************)
(* Characters and text.                                                    *)
(***************************************************************************)
UpperCase == <<"A", "B", "C", "D", "E", "F", "G", "H", "I", "J", "K", "L", "M",
               "N", "O", "P", "Q", "R", "S", "T", "U", "V", "W", "X", "Y", "Z">>
LowerCase == <<"a", "b", "c", "d", "e", "f", "g", "h", "i", "j", "k", "l", "m",
               "n", "o", "p", "q", "r", "s", "t", "u", "v", "w", "x", "y", "z">>
Digits == <<"0", "1", "2", "3", "4", "5", "6", "7", "8", "9">>

Range(s) == {s[i] : i \in DOMAIN s}

DigitChars == Range(Digits)
SpaceChars == {" ", "\t", "\n"}
WordChars == Range(UpperCase) \cup Range(LowerCase) \cup Range(Digits) \cup {"_"}

IsDigit(c) == c \in DigitChars
IsSpace(c) == c \in SpaceChars
IsWordChar(c) == c \in WordChars

DigitVal(c) == (CHOOSE i \in DOMAIN Digits : Digits[i] = c) - 1

\* str.lower, one character
LowerChar(c) ==
    IF c \in Range(UpperCase)
    THEN LowerCase[CHOOSE i \in DOMAIN UpperCase : UpperCase[i] = c]
    ELSE c

\* the code point order of the characters the model uses (for sorted group keys)
Ord(c) ==
    CASE c = "\t" -> 9
      [] c = "\n" -> 10
      [] c = " " -> 32
      [] c = "(" -> 40
      [] c = ")" -> 41
      [] c = "-" -> 45
      [] c = "." -> 46
      [] IsDigit(c) -> 48 + DigitVal(c)
      [] c \in Range(UpperCase) -> 64 + (CHOOSE i \in DOMAIN UpperCase : UpperCase[i] = c)
      [] c = "_" -> 95
      [] OTHER -> 96 + (CHOOSE i \in DOMAIN LowerCase : LowerCase[i] = c)

Map(f(_), s) == [i \in DOMAIN s |-> f(s[i])]

\* str.lower
lower(s) == Map(LowerChar, s)

\* str.strip: surrounding whitespace removed
strip(s) ==
    LET inner == {i \in DOMAIN s : ~IsSpace(s[i])}
    IN  IF inner = {} THEN <<>>
        ELSE LET lo == CHOOSE i \in inner : \A j \in inner : i <= j
                 hi == CHOOSE i \in inner : \A j \in inner : j <= i
             IN  SubSeq(s, lo, hi)

\* str.replace(" ", "_")
replace_space(s) == [i \in DOMAIN s |-> IF s[i] = " " THEN "_" ELSE s[i]]

\* text less than text, by code points
RECURSIVE TextLess(_, _)
TextLess(a, b) ==
    IF b = <<>> THEN FALSE
    ELSE IF a = <<>> THEN TRUE
    ELSE IF Ord(a[1]) < Ord(b[1]) THEN TRUE
    ELSE IF Ord(a[1]) > Ord(b[1]) THEN FALSE
    ELSE TextLess(Tail(a), Tail(b))

\* the decimal digits of a natural number, str(n)
RECURSIVE IntText(_)
IntText(n) ==
    IF n < 10 THEN <<Digits[n + 1]>>
    ELSE IntText(n \div 10) \o <<Digits[(n % 10) + 1]>>

\* the value of a text of digits
RECURSIVE DigitsValue(_)
DigitsValue(s) ==
    IF s = <<>> THEN 0
    ELSE 10 * DigitsValue(SubSeq(s, 1, Len(s) - 1)) + DigitVal(s[Len(s)])

AllDigits(s) == s # <<>> /\ \A i \in DOMAIN s : IsDigit(s[i])


(***************************************************************************)
(* Tables.                                                                 *)
(***************************************************************************)
NoTable == [cols |-> <<>>, rows |-> <<>>]

\* name in df.columns
HasCol(df, name) == \E i \in DOMAIN df.cols : df.cols[i] = name

ColIdx(df, name) ==
    CHOOSE i \in DOMAIN df.cols :
        df.cols[i] = name /\ \A j \in DOMAIN df.cols : df.cols[j] = name => i <= j

\* df[name], the cells of a column
Col(df, name) == [r \in DOMAIN df.rows |-> df.rows[r][ColIdx(df, name)]]

\* df[name] = cells: an existing column is replaced in place, a new one appended
SetCol(df, name, cells) ==
    IF HasCol(df, name)
    THEN [df EXCEPT !.rows = [r \in DOMAIN df.rows |->
                                [df.rows[r] EXCEPT ![ColIdx(df, name)] = cells[r]]]]
    ELSE [cols |-> Append(df.cols, name),
          rows |-> [r \in DOMAIN df.rows |-> Append(df.rows[r], cells[r])]]

\* df.columns.str.strip().str.lower().str.replace(" ", "_")
canonical_name(name) == replace_space(lower(strip(name)))

canonical_columns(df) == [df EXCEPT !.cols = Map(canonical_name, df.cols)]

(***************************************************************************)
(* Column names the code refers to.                                        *)
(***************************************************************************)
created_date == <<"c", "r", "e", "a", "t", "e", "d", "_", "d", "a", "t", "e">>
articleid == <<"a", "r", "t", "i", "c", "l", "e", "i", "d">>
author == <<"a", "u", "t", "h", "o", "r">>
type == <<"t", "y", "p", "e">>
media == <<"m", "e", "d", "i", "a">>
version == <<"v", "e", "r", "s", "i", "o", "n">>
headline == <<"h", "e", "a", "d", "l", "i", "n", "e">>
date == <<"d", "a", "t", "e">>
spend == <<"s", "p", "e", "n", "d">>
clicks == <<"c", "l", "i", "c", "k", "s">>
campaign_name == <<"c", "a", "m", "p", "a", "i", "g", "n", "_", "n", "a", "m", "e">>
campaign_id == <<"c", "a", "m", "p", "a", "i", "g", "n", "_", "i", "d">>
adset_id == <<"a", "d", "s", "e", "t", "_", "i", "d">>
banner_revenue == <<"b", "a", "n", "n", "e", "r", "_", "r", "e", "v", "e", "n", "u", "e">>
video_revenue == <<"v", "i", "d", "e", "o", "_", "r", "e", "v", "e", "n", "u", "e">>
total_revenue == <<"t", "o", "t", "a", "l", "_", "r", "e", "v", "e", "n", "u", "e">>
profit == <<"p", "r", "o", "f", "i", "t">>
roi == <<"r", "o", "i">>
cpc == <<"c", "p", "c">>
is_profitable == <<"i", "s", "_", "p", "r", "o", "f", "i", "t", "a", "b", "l", "e">>
campaigns == <<"c", "a", "m", "p", "a", "i", "g", "n", "s">>
creatives == <<"c", "r", "e", "a", "t", "i", "v", "e", "s">>
total_spend == <<"t", "o", "t", "a", "l", "_", "s", "p", "e", "n", "d">>
total_profit == <<"t", "o", "t", "a", "l", "_", "p", "r", "o", "f", "i", "t">>
avg_roi == <<"a", "v", "g", "_", "r", "o", "i">>
success_rate == <<"s", "u", "c", "c", "e", "s", "s", "_", "r", "a", "t", "e">>

(***************************************************************************)
(* Coercions.                                                              *)
(***************************************************************************)
\* a text the date parser accepts: YYYY-MM-DD (every other text of the model
\* is one it rejects)
DateParses(s) ==
    /\ Len(s) = 10
    /\ s[5] = "-" /\ s[8] = "-"
    /\ \A i \in {1, 2, 3, 4, 6, 7, 9, 10} : IsDigit(s[i])
    /\ DigitsValue(SubSeq(s, 6, 7)) \in 1..12
    /\ DigitsValue(SubSeq(s, 9, 10)) \in 1..31

\* pd.to_datetime raises on a text it cannot parse
to_datetime_raises(cells) ==
    \E r \in DOMAIN cells : cells[r].k = "str" /\ ~DateParses(cells[r].v)

\* pd.to_datetime(column)
to_datetime(cells) ==
    [r \in DOMAIN cells |->
        CASE cells[r].k = "date" -> cells[r]
          [] cells[r].k = "nan" -> NaN
          [] cells[r].k = "str" ->
                Date(DigitsValue(SubSeq(cells[r].v, 1, 4)),
                     DigitsValue(SubSeq(cells[r].v, 6, 7)),
                     DigitsValue(SubSeq(cells[r].v, 9, 10)))]

\* pd.to_numeric(column, errors="coerce"): what does not parse becomes NaN
to_numeric(cells) ==
    [r \in DOMAIN cells |->
        CASE cells[r].k = "num" -> cells[r]
          [] cells[r].k = "str" /\ AllDigits(cells[r].v) -> Num(DigitsValue(cells[r].v))
          [] OTHER -> NaN]

\* column.fillna(0)
fillna0(cells) == [r \in DOMAIN cells |-> IF isna(cells[r]) THEN Num(0) ELSE cells[r]]

\* a column pandas holds as float64: numbers with at least one missing cell
IsFloatColumn(cells) ==
    /\ \A r \in DOMAIN cells : cells[r].k \in {"num", "nan"}
    /\ \E r \in DOMAIN cells : cells[r].k = "nan"

\* column.astype(str): a missing cell becomes the text "nan", an integer of a
\* float64 column is written with ".0"
astype_str(cells) ==
    [r \in DOMAIN cells |->
        CASE cells[r].k = "str" -> cells[r]
          [] cells[r].k = "nan" -> Str(<<"n", "a", "n">>)
          [] cells[r].k = "num" ->
                IF IsFloatColumn(cells)
                THEN Str(IntText(cells[r].v) \o <<".", "0">>)
                ELSE Str(IntText(cells[r].v))]

\* column.str.strip(): cells that are no text become NaN
str_strip(cells) ==
    [r \in DOMAIN cells |-> IF cells[r].k = "str" THEN Str(strip(cells[r].v)) ELSE NaN]

\* the .str accessor raises on a column that holds no text at all (float64)
str_accessor_raises(cells) ==
    /\ cells # <<>>
    /\ \A r \in DOMAIN cells : cells[r].k \in {"num", "nan"}

(***************************************************************************)
(* The campaign-name pattern of normalize_fb,                              *)
(*   (?P<articleid>\d+)\s+(?P<type>\w+)\s+(?P<version>v\d+)\s+android\s+   *)
(*   \((?P<author>[^)]+)\)\s+(?P<media>\w+)      with re.IGNORECASE,       *)
(* as a sequence of elements: the start and the end of a group, a literal  *)
(* character, or one or more characters of a class.  In this pattern every *)
(* repetition is followed by a character outside its class (or ends the    *)
(* pattern), so the only match from a start is the one where every run is  *)
(* the longest.                                                            *)
(***************************************************************************)
Open(g) == [t |-> "open", g |-> g]
Close(g) == [t |-> "close", g |-> g]
Lit(c) == [t |-> "lit", c |-> c]
Plus(cls) == [t |-> "plus", cls |-> cls]

pattern ==
    <<Open(1), Plus("\\d"), Close(1), Plus("\\s"),
      Open(2), Plus("\\w"), Close(2), Plus("\\s"),
      Open(3), Lit("v"), Plus("\\d"), Close(3), Plus("\\s"),
      Lit("a"), Lit("n"), Lit("d"), Lit("r"), Lit("o"), Lit("i"), Lit("d"), Plus("\\s"),
      Lit("("), Open(4), Plus("[^)]"), Close(4), Lit(")"), Plus("\\s"),
      Open(5), Plus("\\w"), Close(5)>>

\* the character classes of the pattern
InClass(cls, c) ==
    CASE cls = "\\d" -> IsDigit(c)
      [] cls = "\\s" -> IsSpace(c)
      [] cls = "\\w" -> IsWordChar(c)
      [] cls = "[^)]" -> c # ")"

\* the end of the longest run of characters of a class that starts at i
\* (i - 1 when s[i] is not in the class)
RECURSIVE RunEnd(_, _, _)
RunEnd(cls, s, i) ==
    IF i <= Len(s) /\ InClass(cls, s[i]) THEN RunEnd(cls, s, i + 1) ELSE i - 1

NoMatch == [ok |-> FALSE]

\* the match of the elements from p on at position i of s; caps holds the
\* <<first, last>> positions of the groups met so far
RECURSIVE MatchFrom(_, _, _, _)
MatchFrom(s, i, p, caps) ==
    IF p > Len(pattern) THEN [ok |-> TRUE, caps |-> caps]
    ELSE CASE pattern[p].t = "open" ->
                MatchFrom(s, i, p + 1, [caps EXCEPT ![pattern[p].g] = <<i, i - 1>>])
           [] pattern[p].t = "close" ->
                MatchFrom(s, i, p + 1, [caps EXCEPT ![pattern[p].g][2] = i - 1])
           [] pattern[p].t = "lit" ->
                IF i <= Len(s) /\ LowerChar(s[i]) = pattern[p].c
                THEN MatchFrom(s, i + 1, p + 1, caps)
                ELSE NoMatch
           [] pattern[p].t = "plus" ->
                IF RunEnd(pattern[p].cls, s, i) >= i
                THEN MatchFrom(s, RunEnd(pattern[p].cls, s, i) + 1, p + 1, caps)
                ELSE NoMatch

\* pattern.search(s): the match at the leftmost start from i on; its groups
RECURSIVE Search(_, _)
Search(s, i) ==
    IF i > Len(s) THEN NoMatch
    ELSE IF MatchFrom(s, i, 1, [g \in 1..5 |-> <<0, 0>>]).ok
         THEN [ok |-> TRUE,
               groups |-> [g \in 1..5 |->
                   SubSeq(s, MatchFrom(s, i, 1, [h \in 1..5 |-> <<0, 0>>]).caps[g][1],
                             MatchFrom(s, i, 1, [h \in 1..5 |-> <<0, 0>>]).caps[g][2])]]
         ELSE Search(s, i + 1)

\* column.str.extract(pattern): a row of the five named groups per cell, all
\* NaN where the cell is no text or the pattern is not found
extract(cells) ==
    [r \in DOMAIN cells |->
        [g \in 1..5 |->
            IF cells[r].k = "str" /\ Search(cells[r].v, 1).ok
            THEN Str(Search(cells[r].v, 1).groups[g])
            ELSE NaN]]

(***************************************************************************)
(* The four normalizers.  Each returns a new table; X_raises(df) says      *)
(* when the call ends in an exception.                                     *)
(***************************************************************************)
\* df[name] = f(df[name]) if name in df.columns
CoerceIfPresent(df, name, f(_)) ==
    IF HasCol(df, name) THEN SetCol(df, name, f(Col(df, name))) ELSE df

strip_astype_str(cells) == str_strip(astype_str(cells))

normalize_creative_raises(df) ==
    LET d0 == canonical_columns(df)
    IN  HasCol(d0, created_date) /\ to_datetime_raises(Col(d0, created_date))

normalize_creative(df) ==
    LET d0 == canonical_columns(df)
        d1 == CoerceIfPresent(d0, created_date, to_datetime)
        d2 == CoerceIfPresent(d1, articleid, astype_str)
        d3 == CoerceIfPresent(d2, author, strip_astype_str)
        d4 == CoerceIfPresent(d3, type, strip_astype_str)
        d5 == CoerceIfPresent(d4, media, strip_astype_str)
        d6 == CoerceIfPresent(d5, version, strip_astype_str)
    IN  d6

normalize_fb_raises(df) ==
    LET d0 == canonical_columns(df)
    IN  \/ HasCol(d0, date) /\ to_datetime_raises(Col(d0, date))
        \/ HasCol(d0, campaign_name) /\ str_accessor_raises(Col(d0, campaign_name))

\* the columns of str.extract, in the order of the groups of the pattern
parsed_cols == <<articleid, type, version, author, media>>

\* parsed = df["campaign_name"].str.extract(pattern), then articleid made text
\* and the other four made text and stripped
parsed_of(df) ==
    LET groups == extract(Col(df, campaign_name))
        column(i) == [r \in DOMAIN groups |-> groups[r][i]]
        coerced == [i \in DOMAIN parsed_cols |->
                      IF parsed_cols[i] = articleid THEN astype_str(column(i))
                      ELSE strip_astype_str(column(i))]
    IN  [cols |-> parsed_cols,
         rows |-> [r \in DOMAIN groups |-> [i \in DOMAIN parsed_cols |-> coerced[i][r]]]]

\* pd.concat([df, parsed], axis=1): the columns of parsed are appended, also
\* when df already has columns of these names
concat(df, parsed) ==
    [cols |-> df.cols \o parsed.cols,
     rows |-> [r \in DOMAIN df.rows |-> df.rows[r] \o parsed.rows[r]]]

normalize_fb(df) ==
    LET d0 == canonical_columns(df)
        d1 == CoerceIfPresent(d0, date, to_datetime)
        d2 == CoerceIfPresent(d1, spend, to_numeric)
        d3 == CoerceIfPresent(d2, clicks, to_numeric)
    IN  IF HasCol(d3, campaign_name)
        THEN concat(d3, parsed_of(d3))
        ELSE d3

normalize_gam_raises(df) ==
    LET d0 == canonical_columns(df)
    IN  HasCol(d0, date) /\ to_datetime_raises(Col(d0, date))

to_numeric_fillna0(cells) == fillna0(to_numeric(cells))

normalize_gam(df) ==
    LET d0 == canonical_columns(df)
        d1 == CoerceIfPresent(d0, date, to_datetime)
        d2 == CoerceIfPresent(d1, banner_revenue, to_numeric_fillna0)
        d3 == CoerceIfPresent(d2, video_revenue, to_numeric_fillna0)
    IN  d3

normalize_mapping(df) == canonical_columns(df)

(***************************************************************************)
(* DataFrame.merge(right, on=keys, how="left").                            *)
(***************************************************************************)
\* the elements of a finite set of integers, ascending
RECURSIVE Ascending(_)
Ascending(S) ==
    IF S = {} THEN <<>>
    ELSE LET m == CHOOSE x \in S : \A y \in S : x <= y
         IN  <<m>> \o Ascending(S \ {m})

\* the rows of right whose key cells equal those of row i of left (two missing
\* keys are equal to merge)
Matches(left, right, keys, i) ==
    {j \in DOMAIN right.rows :
        \A k \in DOMAIN keys :
            left.rows[i][ColIdx(left, keys[k])] = right.rows[j][ColIdx(right, keys[k])]}

\* a join that drops the left rows without a match (how="inner")
RECURSIVE inner_join_pairs(_, _, _, _)
inner_join_pairs(left, right, keys, i) ==
    IF i > Len(left.rows) THEN <<>>
    ELSE LET m == Ascending(Matches(left, right, keys, i))
         IN  [x \in DOMAIN m |-> <<i, m[x]>>] \o inner_join_pairs(left, right, keys, i + 1)

\* a join that keeps only the first match of every left row (a lookup)
RECURSIVE first_match_pairs(_, _, _, _)
first_match_pairs(left, right, keys, i) ==
    IF i > Len(left.rows) THEN <<>>
    ELSE LET m == Ascending(Matches(left, right, keys, i))
         IN  <<(<<i, IF m = <<>> THEN 0 ELSE m[1]>>)>>
             \o first_match_pairs(left, right, keys, i + 1)

\* the pairs <<left row, right row>> of the result, in order: every left row
\* once per matching right row, and once with 0 when nothing matches
RECURSIVE left_join_pairs(_, _, _, _)
left_join_pairs(left, right, keys, i) ==
    IF i > Len(left.rows) THEN <<>>
    ELSE LET m == Ascending(Matches(left, right, keys, i))
         IN  (IF m = <<>> THEN <<(<<i, 0>>)>> ELSE [x \in DOMAIN m |-> <<i, m[x]>>])
             \o left_join_pairs(left, right, keys, i + 1)

merge_raises(left, right, keys) ==
    \E k \in DOMAIN keys : ~HasCol(left, keys[k]) \/ ~HasCol(right, keys[k])

IsKey(keys, name) == \E k \in DOMAIN keys : keys[k] = name

\* a column of both sides that is no key gets the suffix _x (left) or _y (right)
Suffixed(name, other, keys, sfx) ==
    IF ~IsKey(keys, name) /\ HasCol(other, name) THEN name \o <<"_", sfx>> ELSE name

merge_pairs(left, right, keys, pairs) ==
    LET keep == Ascending({c \in DOMAIN right.cols : ~IsKey(keys, right.cols[c])})
    IN  [cols |-> [c \in DOMAIN left.cols |-> Suffixed(left.cols[c], right, keys, "x")]
                  \o [c \in DOMAIN keep |-> Suffixed(right.cols[keep[c]], left, keys, "y")],
         rows |-> [r \in DOMAIN pairs |->
                     left.rows[pairs[r][1]]
                     \o [c \in DOMAIN keep |->
                           IF pairs[r][2] = 0 THEN NaN
                           ELSE right.rows[pairs[r][2]][keep[c]]]]]

merge(left, right, keys) ==
    merge_pairs(left, right, keys, left_join_pairs(left, right, keys, 1))

(***************************************************************************)
(* Arithmetic on cells, as pandas does it elementwise: NaN propagates,     *)
(* a division by zero gives an infinity or NaN and raises nothing.         *)
(***************************************************************************)
Inf == [k |-> "inf"]
NegInf == [k |-> "neginf"]

Abs(n) == IF n < 0 THEN -n ELSE n

RECURSIVE GCD(_, _)
GCD(a, b) == IF b = 0 THEN a ELSE GCD(b, a % b)

\* the fraction n / d in lowest terms, d > 0
Reduced(n, d) ==
    LET g == GCD(Abs(n), d)
    IN  Frac(n \div g, d \div g)

add(a, b) == IF a.k = "num" /\ b.k = "num" THEN Num(a.v + b.v) ELSE NaN

\* a difference that takes a missing subtrahend as zero
sub_zero_filled(a, b) ==
    IF a.k = "num" THEN Num(a.v - (IF b.k = "num" THEN b.v ELSE 0)) ELSE NaN

sub(a, b) == IF a.k = "num" /\ b.k = "num" THEN Num(a.v - b.v) ELSE NaN

truediv(a, b) ==
    IF a.k = "num" /\ b.k = "num"
    THEN IF b.v = 0
         THEN (IF a.v = 0 THEN NaN ELSE IF a.v > 0 THEN Inf ELSE NegInf)
         ELSE IF b.v > 0 THEN Reduced(a.v, b.v) ELSE Reduced(-a.v, -b.v)
    ELSE NaN

\* a > b: a comparison with NaN is False
gt(a, b) == a.k = "num" /\ b.k = "num" /\ a.v > b.v

Zip(f(_, _), xs, ys) == [r \in DOMAIN xs |-> f(xs[r], ys[r])]

\* a guard that lets a zero denominator through (column >= 0)
where_nonnegative(cells, values) ==
    [r \in DOMAIN cells |->
        IF cells[r].k = "num" /\ cells[r].v >= 0 THEN values[r] ELSE NaN]

\* np.where(column > 0, values, np.nan)
where_positive(cells, values) ==
    [r \in DOMAIN cells |-> IF gt(cells[r], Num(0)) THEN values[r] ELSE NaN]

(***************************************************************************)
(* build_fact_table.                                                       *)
(***************************************************************************)
creative_key == <<articleid, author, type, media, version>>

fb_map_of(fb, mapping) == merge(fb, mapping, <<campaign_id>>)

fb_map_gam_of(fb, gam, mapping) == merge(fb_map_of(fb, mapping), gam, <<adset_id, date>>)

\* the three left joins
joined(creative, fb, gam, mapping) ==
    merge(fb_map_gam_of(fb, gam, mapping), creative, creative_key)

\* if col in fact.columns: fact[col] = fact[col].fillna(0) else: fact[col] = 0.0
revenue_or_zero(fact, col) ==
    IF HasCol(fact, col) THEN SetCol(fact, col, fillna0(Col(fact, col)))
    ELSE SetCol(fact, col, [r \in DOMAIN fact.rows |-> Num(0)])

\* a comparison that is not strict (>=)
is_profitable_or_equal(revenue, spent) ==
    Bool(revenue.k = "num" /\ spent.k = "num" /\ revenue.v >= spent.v)

is_profitable_of(revenue, spent) == Bool(gt(revenue, spent))

compute_metrics(fact) ==
    LET f1 == revenue_or_zero(fact, banner_revenue)
        f2 == revenue_or_zero(f1, video_revenue)
        f3 == SetCol(f2, total_revenue,
                     Zip(add, Col(f2, banner_revenue), Col(f2, video_revenue)))
        f4 == SetCol(f3, profit, Zip(sub, Col(f3, total_revenue), Col(f3, spend)))
        f5 == SetCol(f4, roi,
                     where_positive(Col(f4, spend),
                                    Zip(truediv, Col(f4, total_revenue), Col(f4, spend))))
        f6 == SetCol(f5, cpc,
                     where_positive(Col(f5, clicks),
                                    Zip(truediv, Col(f5, spend), Col(f5, clicks))))
        f7 == SetCol(f6, is_profitable,
                     Zip(is_profitable_of, Col(f6, total_revenue), Col(f6, spend)))
    IN  f7

build_fact_table(creative, fb, gam, mapping) ==
    compute_metrics(joined(creative, fb, gam, mapping))

\* a KeyError: a join key or a metric's input column is missing
build_fact_table_raises(creative, fb, gam, mapping) ==
    \/ merge_raises(fb, mapping, <<campaign_id>>)
    \/ merge_raises(fb_map_of(fb, mapping), gam, <<adset_id, date>>)
    \/ merge_raises(fb_map_gam_of(fb, gam, mapping), creative, creative_key)
    \/ ~HasCol(joined(creative, fb, gam, mapping), spend)
    \/ ~HasCol(joined(creative, fb, gam, mapping), clicks)

\* for every fact row, the rows it was joined from:
\* <<ad-spend row, mapping row, revenue row, creative row>>, 0 for no match
lineage_of(creative, fb, gam, mapping) ==
    LET p1 == left_join_pairs(fb, mapping, <<campaign_id>>, 1)
        m1 == fb_map_of(fb, mapping)
        p2 == left_join_pairs(m1, gam, <<adset_id, date>>, 1)
        m2 == fb_map_gam_of(fb, gam, mapping)
        p3 == left_join_pairs(m2, creative, creative_key, 1)
    IN  [r \in DOMAIN p3 |->
            <<p1[p2[p3[r][1]][1]][1],
              p1[p2[p3[r][1]][1]][2],
              p2[p3[r][1]][2],
              p3[r][2]>>]

(***************************************************************************)
(* aggregate_by_author.                                                    *)
(***************************************************************************)
\* the distinct texts of a set, ascending (groupby sorts its keys)
RECURSIVE SortedTexts(_)
SortedTexts(S) ==
    IF S = {} THEN <<>>
    ELSE LET m == CHOOSE x \in S : \A y \in S : x = y \/ TextLess(x.v, y.v)
         IN  <<m>> \o SortedTexts(S \ {m})

\* groupby(name, dropna=True): the group keys, missing ones dropped
group_keys(fact, name) ==
    SortedTexts({c \in Range(Col(fact, name)) : ~isna(c)})

group_rows(fact, name, key) ==
    Ascending({r \in DOMAIN fact.rows : Col(fact, name)[r] = key})

\* "nunique": the number of distinct values, missing ones not counted
nunique(cells, rows) ==
    Cardinality({cells[rows[i]] : i \in DOMAIN rows} \ {NaN})

\* "sum": missing values are skipped; the sum of none is 0
RECURSIVE sum(_, _)
sum(cells, rows) ==
    IF rows = <<>> THEN 0
    ELSE (IF cells[Head(rows)].k = "num" THEN cells[Head(rows)].v ELSE 0)
         + sum(cells, Tail(rows))

frac_add(a, b) == Reduced(a.n * b.d + b.n * a.d, a.d * b.d)

RECURSIVE frac_sum(_, _)
frac_sum(cells, rows) ==
    IF rows = <<>> THEN Frac(0, 1)
    ELSE frac_add(cells[Head(rows)], frac_sum(cells, Tail(rows)))

\* the rows a mean counts: those whose cell is not missing
counted(cells, rows) == SelectSeq(rows, LAMBDA r : ~isna(cells[r]))

\* a mean that counts a missing value as zero: it divides by the number of rows
mean_zero_filled(cells, rows) ==
    LET c == counted(cells, rows)
    IN  IF rows = <<>> THEN NaN
        ELSE Reduced(frac_sum(cells, c).n, frac_sum(cells, c).d * Len(rows))

\* "mean" of a column of fractions: missing values are skipped in the sum
\* and in the count; the mean of none is NaN
mean(cells, rows) ==
    LET c == counted(cells, rows)
    IN  IF c = <<>> THEN NaN
        ELSE Reduced(frac_sum(cells, c).n, frac_sum(cells, c).d * Len(c))

\* "mean" of a column of booleans: the share of True
mean_bool(cells, rows) ==
    Reduced(Cardinality({i \in DOMAIN rows : cells[rows[i]].v}), Len(rows))

\* round to the nearest integer, a tie to the even one (numpy's round)
round_half_even(n, d) ==
    LET q == n \div d
        r == n % d
    IN  IF 2 * r < d THEN q
        ELSE IF 2 * r > d THEN q + 1
        ELSE IF q % 2 = 0 THEN q ELSE q + 1

\* (rate * 100).round(1)
percent_round1(rate) == Reduced(round_half_even(rate.n * 1000, rate.d), 10)

summary_cols ==
    <<author, campaigns, creatives, total_spend, total_revenue, total_profit,
      avg_roi, success_rate>>

summary_row(fact, key) ==
    LET rows == group_rows(fact, author, key)
    IN  <<key,
          Num(nunique(Col(fact, campaign_id), rows)),
          Num(nunique(Col(fact, headline), rows)),
          Num(sum(Col(fact, spend), rows)),
          Num(sum(Col(fact, total_revenue), rows)),
          Num(sum(Col(fact, profit), rows)),
          mean(Col(fact, roi), rows),
          percent_round1(mean_bool(Col(fact, is_profitable), rows))>>

aggregate_by_author(fact) ==
    LET keys == group_keys(fact, author)
    IN  [cols |-> summary_cols,
         rows |-> [g \in DOMAIN keys |-> summary_row(fact, keys[g])]]

\* a KeyError: the group column or an aggregated column is missing
aggregate_by_author_raises(fact) ==
    \E name \in {author, campaign_id, headline} : ~HasCol(fact, name)

(***************************************************************************)
(* The state of a run of main.                                             *)
(***************************************************************************)
VARIABLES
    pc,          \* the statement of main that runs next; "done", "raised" at the end
    creative,    \* the sheets as load_data returns them
    fb,
    gam,
    mapping,
    creative_n,  \* the normalized tables
    fb_n,
    gam_n,
    mapping_n,
    fact,        \* the fact table
    lineage,     \* for every fact row, the input rows it was joined from
    authors,     \* the author summary
    csv,         \* the CSV files written: file name -> table
    db,          \* the database tables written: table name -> table
    fn,          \* a normalizer called twice: which one
    arg,         \*   the table passed to it
    once,        \*   what it returned
    twice        \*   what it returned when called on that

tables == <<creative, fb, gam, mapping, creative_n, fb_n, gam_n, mapping_n,
            fact, lineage, authors>>
outputs == <<csv, db>>
twice_vars == <<fn, arg, once, twice>>
vars == <<pc, tables, outputs, twice_vars>>

fact_creative_performance == "fact_creative_performance"
author_performance_summary == "author_performance_summary"

\* nothing written
NoOutput == [name \in {} |-> NoTable]

\* a file or table written in full (to_csv, to_sql with if_exists="replace")
Written(out, name, df) ==
    [n \in DOMAIN out \cup {name} |-> IF n = name THEN df ELSE out[n]]

\* an exception leaves main: the process ends, its tables are gone, what was
\* written stays
Raise ==
    /\ pc' = "raised"
    /\ creative' = NoTable /\ fb' = NoTable /\ gam' = NoTable /\ mapping' = NoTable
    /\ creative_n' = NoTable /\ fb_n' = NoTable /\ gam_n' = NoTable
    /\ mapping_n' = NoTable
    /\ fact' = NoTable /\ lineage' = <<>> /\ authors' = NoTable
    /\ UNCHANGED <<outputs, twice_vars>>

InitMain ==
    /\ pc = "start"
    /\ creative = NoTable /\ fb = NoTable /\ gam = NoTable /\ mapping = NoTable
    /\ creative_n = NoTable /\ fb_n = NoTable /\ gam_n = NoTable
    /\ mapping_n = NoTable
    /\ fact = NoTable /\ lineage = <<>> /\ authors = NoTable
    /\ csv = NoOutput /\ db = NoOutput
    /\ fn = "none" /\ arg = NoTable /\ once = NoTable /\ twice = NoTable

(***************************************************************************)
(* main, statement by statement.                                           *)
(***************************************************************************)
\* if not DATA_PATH.exists(): raise FileNotFoundError
CheckDataPath ==
    /\ pc = "start"
    /\ \E exists \in BOOLEAN :
          IF exists
          THEN pc' = "load_data" /\ UNCHANGED <<tables, outputs, twice_vars>>
          ELSE Raise

\* load_data: the four sheets of the workbook, or an exception when a sheet
\* cannot be read
LoadData(Creatives, Fbs, Gams, Mappings) ==
    /\ pc = "load_data"
    /\ \/ \E c \in Creatives, f \in Fbs, g \in Gams, m \in Mappings :
             /\ creative' = c /\ fb' = f /\ gam' = g /\ mapping' = m
             /\ pc' = "normalize_creative"
             /\ UNCHANGED <<creative_n, fb_n, gam_n, mapping_n, fact, lineage,
                            authors, outputs, twice_vars>>
       \/ Raise

NormalizeCreative ==
    /\ pc = "normalize_creative"
    /\ IF normalize_creative_raises(creative) THEN Raise
       ELSE /\ creative_n' = normalize_creative(creative)
            /\ pc' = "normalize_fb"
            /\ UNCHANGED <<creative, fb, gam, mapping, fb_n, gam_n, mapping_n,
                           fact, lineage, authors, outputs, twice_vars>>

NormalizeFb ==
    /\ pc = "normalize_fb"
    /\ IF normalize_fb_raises(fb) THEN Raise
       ELSE /\ fb_n' = normalize_fb(fb)
            /\ pc' = "normalize_gam"
            /\ UNCHANGED <<creative, fb, gam, mapping, creative_n, gam_n, mapping_n,
                           fact, lineage, authors, outputs, twice_vars>>

NormalizeGam ==
    /\ pc = "normalize_gam"
    /\ IF normalize_gam_raises(gam) THEN Raise
       ELSE /\ gam_n' = normalize_gam(gam)
            /\ pc' = "normalize_mapping"
            /\ UNCHANGED <<creative, fb, gam, mapping, creative_n, fb_n, mapping_n,
                           fact, lineage, authors, outputs, twice_vars>>

NormalizeMapping ==
    /\ pc = "normalize_mapping"
    /\ mapping_n' = normalize_mapping(mapping)
    /\ pc' = "build_fact_table"
    /\ UNCHANGED <<creative, fb, gam, mapping, creative_n, fb_n, gam_n,
                   fact, lineage, authors, outputs, twice_vars>>

BuildFactTable ==
    /\ pc = "build_fact_table"
    /\ IF build_fact_table_raises(creative_n, fb_n, gam_n, mapping_n) THEN Raise
       ELSE /\ fact' = build_fact_table(creative_n, fb_n, gam_n, mapping_n)
            /\ lineage' = lineage_of(creative_n, fb_n, gam_n, mapping_n)
            /\ pc' = "aggregate_by_author"
            /\ UNCHANGED <<creative, fb, gam, mapping, creative_n, fb_n, gam_n,
                           mapping_n, authors, outputs, twice_vars>>

AggregateByAuthor ==
    /\ pc = "aggregate_by_author"
    /\ IF aggregate_by_author_raises(fact) THEN Raise
       ELSE /\ authors' = aggregate_by_author(fact)
            /\ pc' = "mkdir"
            /\ UNCHANGED <<creative, fb, gam, mapping, creative_n, fb_n, gam_n,
                           mapping_n, fact, lineage, outputs, twice_vars>>

\* a statement that touches the file system or the database either succeeds
\* or raises (no such directory, disk full, no connection, ...)
\* OUTPUT_DIR.mkdir(exist_ok=True)
MakeOutputDir ==
    /\ pc = "mkdir"
    /\ \/ pc' = "fact_to_csv" /\ UNCHANGED <<tables, outputs, twice_vars>>
       \/ Raise

\* fact.to_csv(OUTPUT_DIR / "fact_creative_performance.csv")
FactToCsv ==
    /\ pc = "fact_to_csv"
    /\ \/ /\ csv' = Written(csv, fact_creative_performance, fact)
          /\ pc' = "authors_to_csv"
          /\ UNCHANGED <<tables, db, twice_vars>>
       \/ Raise

\* authors.to_csv(OUTPUT_DIR / "author_performance_summary.csv")
AuthorsToCsv ==
    /\ pc = "authors_to_csv"
    /\ \/ /\ csv' = Written(csv, author_performance_summary, authors)
          /\ pc' = "create_engine"
          /\ UNCHANGED <<tables, db, twice_vars>>
       \/ Raise

\* engine = create_engine(DB_URL)
CreateEngine ==
    /\ pc = "create_engine"
    /\ \/ pc' = "fact_to_sql" /\ UNCHANGED <<tables, outputs, twice_vars>>
       \/ Raise

\* fact.to_sql("fact_creative_performance", engine, if_exists="replace")
FactToSql ==
    /\ pc = "fact_to_sql"
    /\ \/ /\ db' = Written(db, fact_creative_performance, fact)
          /\ pc' = "authors_to_sql"
          /\ UNCHANGED <<tables, csv, twice_vars>>
       \/ Raise

\* authors.to_sql("author_performance_summary", engine, if_exists="replace")
AuthorsToSql ==
    /\ pc = "authors_to_sql"
    /\ \/ /\ db' = Written(db, author_performance_summary, authors)
          /\ pc' = "done"
          /\ UNCHANGED <<tables, csv, twice_vars>>
       \/ Raise

\* main after load_data
AfterLoad ==
    \/ NormalizeCreative \/ NormalizeFb \/ NormalizeGam \/ NormalizeMapping
    \/ BuildFactTable \/ AggregateByAuthor
    \/ MakeOutputDir \/ FactToCsv \/ AuthorsToCsv
    \/ CreateEngine \/ FactToSql \/ AuthorsToSql

(***************************************************************************)
(* The workbooks the model loads.  The sheets carry the headers of a       *)
(* spreadsheet export (capitals, spaces), which the normalizers make       *)
(* canonical.                                                              *)
(***************************************************************************)
CreativeHeader ==
    <<<<"C", "r", "e", "a", "t", "e", "d", " ", "D", "a", "t", "e">>,
      <<"A", "r", "t", "i", "c", "l", "e", "I", "D">>,
      <<"A", "u", "t", "h", "o", "r">>,
      <<" ", "T", "y", "p", "e">>,
      <<"M", "e", "d", "i", "a", " ">>,
      <<"V", "e", "r", "s", "i", "o", "n">>,
      <<"H", "e", "a", "d", "l", "i", "n", "e">>>>
FbHeader ==
    <<<<"D", "a", "t", "e">>,
      <<"C", "a", "m", "p", "a", "i", "g", "n", " ", "I", "D">>,
      <<"C", "a", "m", "p", "a", "i", "g", "n", " ", "N", "a", "m", "e">>,
      <<" ", "S", "p", "e", "n", "d", " ">>,
      <<"C", "l", "i", "c", "k", "s">>>>
GamHeader ==
    <<<<"D", "a", "t", "e">>,
      <<"A", "d", "s", "e", "t", " ", "I", "D">>,
      <<"B", "a", "n", "n", "e", "r", " ", "R", "e", "v", "e", "n", "u", "e">>,
      <<"V", "i", "d", "e", "o", " ", "R", "e", "v", "e", "n", "u", "e">>>>
MappingHeader ==
    <<<<"C", "a", "m", "p", "a", "i", "g", "n", " ", "I", "D">>,
      <<"A", "d", "s", "e", "t", " ", "I", "D">>>>

D1 == Date(2024, 1, 1)
D2 == Date(2024, 1, 2)
\* a date cell typed as text that the date parser accepts, and one it rejects
D1Text == Str(<<"2", "0", "2", "4", "-", "0", "1", "-", "0", "1">>)
BadDate == Str(<<"s", "o", "o", "n">>)

\* campaign names: two that match the pattern (the second in capitals and with
\* blanks around the author), and one that does not
NameAnn == Str(<<"7", " ", "v", "i", "d", " ", "v", "1", " ", "a", "n", "d", "r", "o", "i", "d", " ", "(", "A", "n", "n", ")", " ", "f", "b">>)
NameBob == Str(<<"8", " ", "i", "m", "g", " ", "V", "2", " ", "A", "N", "D", "R", "O", "I", "D", " ", "(", " ", "B", "o", "b", " ", ")", " ", "t", "w">>)
NameRandom == Str(<<"r", "a", "n", "d", "o", "m", " ", "t", "e", "x", "t">>)

Ann == <<"A", "n", "n">>
Bob == <<"B", "o", "b">>
NanText == <<"n", "a", "n">>

\* creative rows: created_date, articleid, author, type, media, version, headline
CreativeAnn(h) ==
    <<D1, Num(7), Str(<<"A", "n", "n", " ">>), Str(<<"v", "i", "d">>), Str(<<"f", "b">>),
      Str(<<"v", "1">>), Str(h)>>
CreativeBob(h) ==
    <<D1, Num(8), Str(<<"B", "o", "b">>), Str(<<"i", "m", "g">>), Str(<<"t", "w">>),
      Str(<<"V", "2">>), Str(h)>>
\* a backlog row with nothing but a headline
CreativeBlank(h) == <<NaN, NaN, NaN, NaN, NaN, NaN, Str(h)>>

\* all sequences over S of at most n elements
SeqsUpTo(S, n) == UNION {[1..k -> S] : k \in 0..n}

\* the sheets with the given header and at most MaxRows rows out of Rows
Sheets(header, Rows) == {[cols |-> header, rows |-> r] : r \in SeqsUpTo(Rows, MaxRows)}

(***************************************************************************)
(* Runs that exercise the joins: a mapped and an unmapped campaign, with a *)
(* campaign name that matches the pattern or does not; the mapping row,    *)
(* the revenue row and the creative rows may repeat (a key that is not     *)
(* unique); creative rows may share a key or have no key at all.           *)
(***************************************************************************)
H1 == <<"h", "1">>
H2 == <<"h", "2">>
H3 == <<"h", "3">>

\* ad-spend rows: date, campaign_id, campaign_name, spend, clicks
JoinFbs ==
    Sheets(FbHeader, {<<D1, Num(1), NameAnn, Num(1), Num(1)>>,
                      <<D1, Num(2), NameRandom, Num(1), Num(1)>>})
    \cup {[cols |-> FbHeader, rows |-> <<(<<BadDate, Num(1), NameAnn, Num(1), Num(1)>>)>>]}
\* mapping rows: campaign_id, adset_id
JoinMappings ==
    Sheets(MappingHeader, {<<Num(1), Num(10)>>})
\* revenue rows: date, adset_id, banner_revenue, video_revenue
JoinGams ==
    Sheets(GamHeader, {<<D1Text, Num(10), Num(2), NaN>>})
    \cup {[cols |-> GamHeader, rows |-> <<(<<BadDate, Num(10), Num(2), Num(0)>>)>>],
          [cols |-> SubSeq(GamHeader, 1, 3), rows |-> <<(<<D1, Num(10), Num(2)>>)>>]}
JoinCreatives ==
    Sheets(CreativeHeader, {CreativeAnn(H1), CreativeAnn(H2), CreativeBlank(H3)})
    \cup {[cols |-> CreativeHeader,
           rows |-> <<[CreativeAnn(H1) EXCEPT ![1] = BadDate]>>]}

LoadJoin == LoadData(JoinCreatives, JoinFbs, JoinGams, JoinMappings)

Next == CheckDataPath \/ LoadJoin \/ AfterLoad

Spec == InitMain /\ [][Next]_vars

(***************************************************************************)
(* Runs that exercise the metrics and the summary: ad-spend rows of one    *)
(* campaign and date (revenue 2) whose spend and clicks are missing, text, *)
(* zero or positive, under the names of two authors or a name that does    *)
(* not match.                                                              *)
(***************************************************************************)
Unparsable == Str(<<"n", "/", "a">>)
TwoText == Str(<<"2">>)

MetricsFbs ==
    Sheets(FbHeader,
           {<<D1, Num(1), NameAnn, s, c>> :
               s \in {Unparsable, Num(0), Num(1), TwoText, Num(3)},
               c \in {NaN, Num(0), Num(2)}}
           \cup {<<D1, Num(1), n, s, Num(2)>> :
               n \in {NameBob, NameRandom},
               s \in {Unparsable, Num(0), Num(1), TwoText, Num(3)}})
MetricsMappings == {[cols |-> MappingHeader, rows |-> <<(<<Num(1), Num(10)>>)>>]}
MetricsGams == {[cols |-> GamHeader, rows |-> <<(<<D1, Num(10), Unparsable, TwoText>>)>>]}
MetricsCreatives ==
    {[cols |-> CreativeHeader, rows |-> <<CreativeAnn(H1), CreativeBob(H2)>>]}

LoadMetrics == LoadData(MetricsCreatives, MetricsFbs, MetricsGams, MetricsMappings)

NextMetrics == CheckDataPath \/ LoadMetrics \/ AfterLoad

SpecMetrics == InitMain /\ [][NextMetrics]_vars

(***************************************************************************)
(* A normalizer called on a sheet, and called again on what it returned.   *)
(***************************************************************************)
Normalizers ==
    {"normalize_creative", "normalize_fb", "normalize_gam", "normalize_mapping"}

Normalized(f, df) ==
    CASE f = "normalize_creative" -> normalize_creative(df)
      [] f = "normalize_fb" -> normalize_fb(df)
      [] f = "normalize_gam" -> normalize_gam(df)
      [] f = "normalize_mapping" -> normalize_mapping(df)

NormalizerRaises(f, df) ==
    CASE f = "normalize_creative" -> normalize_creative_raises(df)
      [] f = "normalize_fb" -> normalize_fb_raises(df)
      [] f = "normalize_gam" -> normalize_gam_raises(df)
      [] f = "normalize_mapping" -> FALSE

\* the sheets each normalizer is called on: those of the runs above, and an
\* ad-spend sheet without campaign names
SheetsFor(f) ==
    CASE f = "normalize_creative" -> JoinCreatives \cup MetricsCreatives
      [] f = "normalize_fb" ->
            JoinFbs \cup {t \in MetricsFbs : Len(t.rows) <= 1}
            \cup {[cols |-> <<FbHeader[1], FbHeader[4]>>, rows |-> <<(<<D1Text, TwoText>>)>>]}
      [] f = "normalize_gam" -> JoinGams \cup MetricsGams
      [] f = "normalize_mapping" -> JoinMappings \cup MetricsMappings

InitTwice ==
    /\ pc = "call"
    /\ creative = NoTable /\ fb = NoTable /\ gam = NoTable /\ mapping = NoTable
    /\ creative_n = NoTable /\ fb_n = NoTable /\ gam_n = NoTable
    /\ mapping_n = NoTable
    /\ fact = NoTable /\ lineage = <<>> /\ authors = NoTable
    /\ csv = NoOutput /\ db = NoOutput
    /\ fn \in Normalizers
    /\ arg \in SheetsFor(fn)
    /\ once = NoTable /\ twice = NoTable

\* once = fn(arg)
CallOnce ==
    /\ pc = "call"
    /\ IF NormalizerRaises(fn, arg) THEN pc' = "raised" /\ once' = once
       ELSE pc' = "call_again" /\ once' = Normalized(fn, arg)
    /\ UNCHANGED <<tables, outputs, fn, arg, twice>>

\* twice = fn(once)
CallAgain ==
    /\ pc = "call_again"
    /\ IF NormalizerRaises(fn, once) THEN pc' = "raised" /\ twice' = twice
       ELSE pc' = "returned" /\ twice' = Normalized(fn, once)
    /\ UNCHANGED <<tables, outputs, fn, arg, once>>

NextTwice == CallOnce \/ CallAgain

SpecTwice == InitTwice /\ [][NextTwice]_vars

(***************************************************************************)
(* Properties.                                                             *)
(***************************************************************************)
\* build_fact_table has returned
FactBuilt ==
    pc \in {"aggregate_by_author", "mkdir", "fact_to_csv", "authors_to_csv",
            "create_engine", "fact_to_sql", "authors_to_sql", "done"}

\* aggregate_by_author has returned
Summarized ==
    pc \in {"mkdir", "fact_to_csv", "authors_to_csv", "create_engine",
            "fact_to_sql", "authors_to_sql", "done"}

\* main has ended
Ended == pc \in {"done", "raised"}

\* no two rows of df agree on all the key columns
UniqueOn(df, keys) ==
    \A i, j \in DOMAIN df.rows :
        i # j => \E k \in DOMAIN keys : Col(df, keys[k])[i] # Col(df, keys[k])[j]

\* the fact rows that come from ad-spend row i
FactRowsOf(i) == {r \in DOMAIN fact.rows : lineage[r][1] = i}

\* the part of a fact row that is the ad-spend row
AdSpendPart(r) == SubSeq(fact.rows[r], 1, Len(fb_n.cols))

\* the creative rows whose key is the key extracted for ad-spend row i
SameKeyCreatives(i) ==
    {j \in DOMAIN creative_n.rows :
        \A k \in DOMAIN creative_key :
            Col(creative_n, creative_key[k])[j] = Col(fb_n, creative_key[k])[i]}

\* ad-spend row i is not multiplied by the mapping join or the revenue join
NotMultiplied(i) ==
    Cardinality({<<lineage[r][2], lineage[r][3]>> : r \in FactRowsOf(i)}) = 1

\* the campaign name of ad-spend row i does not match the pattern
NameFails(i) ==
    LET name == Col(canonical_columns(fb), campaign_name)[i]
    IN  name.k = "str" /\ ~Search(name.v, 1).ok

\* C1: when the normalized mapping, revenue and creative tables are unique on
\* their join keys, the fact table has as many rows as the ad-spend table and
\* every ad-spend row is in it exactly once, matched or not.
C1_GrainPreservation ==
    (/\ FactBuilt
     /\ UniqueOn(mapping_n, <<campaign_id>>)
     /\ UniqueOn(gam_n, <<adset_id, date>>)
     /\ UniqueOn(creative_n, creative_key))
    => /\ Len(fact.rows) = Len(fb_n.rows)
       /\ \A i \in DOMAIN fb_n.rows :
             /\ Cardinality(FactRowsOf(i)) = 1
             /\ \A r \in FactRowsOf(i) : AdSpendPart(r) = fb_n.rows[i]

\* unique keys, two ad-spend rows, one matched in all three joins and one in none
C1_Witness ==
    /\ FactBuilt
    /\ UniqueOn(mapping_n, <<campaign_id>>)
    /\ UniqueOn(gam_n, <<adset_id, date>>)
    /\ UniqueOn(creative_n, creative_key)
    /\ Len(fb_n.rows) = 2
    /\ \E r \in DOMAIN lineage : lineage[r][2] # 0 /\ lineage[r][3] # 0 /\ lineage[r][4] # 0
    /\ \E r \in DOMAIN lineage : lineage[r][2] = 0 /\ lineage[r][3] = 0 /\ lineage[r][4] = 0

\* C2: an ad-spend row whose campaign name does not match the pattern is kept
\* with spend and clicks unchanged, its five extracted fields are missing, and
\* in the fact table it is joined to no creative row, whatever the creative
\* table holds.
C2_NameSoftFailure ==
    FactBuilt =>
        \A i \in DOMAIN fb.rows :
            NameFails(i) =>
                /\ Col(fb_n, spend)[i] = Col(canonical_columns(fb), spend)[i]
                /\ Col(fb_n, clicks)[i] = Col(canonical_columns(fb), clicks)[i]
                /\ \A k \in DOMAIN creative_key : isna(Col(fb_n, creative_key[k])[i])
                /\ FactRowsOf(i) # {}
                /\ \A r \in FactRowsOf(i) :
                      /\ lineage[r][4] = 0
                      /\ isna(Col(fact, headline)[r])
                      /\ isna(Col(fact, created_date)[r])

\* C6: an ad-spend row whose key is shared by k >= 2 creative rows, and that
\* the mapping and revenue joins do not multiply, is in the fact table exactly
\* k times, once with each of these creative rows.
C6_FanOut ==
    FactBuilt =>
        \A i \in DOMAIN fb_n.rows :
            (Cardinality(SameKeyCreatives(i)) >= 2 /\ NotMultiplied(i)) =>
                /\ Cardinality(FactRowsOf(i)) = Cardinality(SameKeyCreatives(i))
                /\ {lineage[r][4] : r \in FactRowsOf(i)} = SameKeyCreatives(i)
                /\ \A r \in FactRowsOf(i) :
                      /\ AdSpendPart(r) = fb_n.rows[i]
                      /\ Col(fact, headline)[r] = Col(creative_n, headline)[lineage[r][4]]

\* an ad-spend row joined to two creative rows of its key with different headlines
C6_Witness ==
    /\ FactBuilt
    /\ \E i \in DOMAIN fb_n.rows :
          /\ Cardinality(SameKeyCreatives(i)) >= 2
          /\ NotMultiplied(i)
          /\ \E r1, r2 \in FactRowsOf(i) :
                Col(fact, headline)[r1] # Col(fact, headline)[r2]

\* an output table is written, as a file or in the database
IsWritten(name) == name \in DOMAIN csv \cup DOMAIN db

\* C8: at the end of every run of main, failed or not, either both output
\* tables are written or neither is.
C8_NoPartialOutput ==
    Ended => (IsWritten(fact_creative_performance) <=> IsWritten(author_performance_summary))

\* C9: a normalizer applied to its own output returns that output unchanged.
C9_IdempotentNormalization ==
    pc = "returned" => twice = once

\* a cell that is a number greater than zero
Positive(c) == c.k = "num" /\ c.v > 0

\* a cell that is infinite
Infinite(c) == c.k \in {"inf", "neginf"}

\* C3: in every fact row roi is defined exactly when spend > 0 and cpc exactly
\* when clicks > 0, and neither is ever infinite.
C3_DefinednessLaw ==
    FactBuilt =>
        \A r \in DOMAIN fact.rows :
            /\ ~isna(Col(fact, roi)[r]) <=> Positive(Col(fact, spend)[r])
            /\ ~isna(Col(fact, cpc)[r]) <=> Positive(Col(fact, clicks)[r])
            /\ ~Infinite(Col(fact, roi)[r])
            /\ ~Infinite(Col(fact, cpc)[r])

\* C3 as amended: roi is defined exactly when spend > 0; cpc is defined exactly
\* when clicks > 0 and spend is not missing; neither is ever infinite.
C3_DefinednessAmended ==
    FactBuilt =>
        \A r \in DOMAIN fact.rows :
            /\ ~isna(Col(fact, roi)[r]) <=> Positive(Col(fact, spend)[r])
            /\ ~isna(Col(fact, cpc)[r])
                  <=> (Positive(Col(fact, clicks)[r]) /\ ~isna(Col(fact, spend)[r]))
            /\ ~Infinite(Col(fact, roi)[r])
            /\ ~Infinite(Col(fact, cpc)[r])

\* a row with clicks but no spend (cpc undefined), and a row with zero spend and
\* zero clicks (both undefined, nothing infinite)
C3_Witness ==
    /\ FactBuilt
    /\ \E r \in DOMAIN fact.rows :
          /\ isna(Col(fact, spend)[r]) /\ Positive(Col(fact, clicks)[r])
          /\ isna(Col(fact, cpc)[r])
    /\ \E r \in DOMAIN fact.rows :
          /\ Col(fact, spend)[r] = Num(0) /\ Col(fact, clicks)[r] = Num(0)
          /\ isna(Col(fact, roi)[r]) /\ isna(Col(fact, cpc)[r])

\* C4: in every fact row is_profitable is a boolean, true exactly when spend
\* is defined and total_revenue is strictly greater than spend.
C4_ProfitabilityLaw ==
    FactBuilt =>
        \A r \in DOMAIN fact.rows :
            /\ Col(fact, is_profitable)[r].k = "bool"
            /\ Col(fact, is_profitable)[r].v
                  <=> /\ Col(fact, spend)[r].k = "num"
                      /\ Col(fact, total_revenue)[r].v > Col(fact, spend)[r].v

\* a row whose revenue equals its spend and a row without spend, neither profitable
C4_Witness ==
    /\ FactBuilt
    /\ \E r \in DOMAIN fact.rows :
          /\ Col(fact, spend)[r] = Col(fact, total_revenue)[r]
          /\ Col(fact, is_profitable)[r] = Bool(FALSE)
    /\ \E r \in DOMAIN fact.rows :
          /\ isna(Col(fact, spend)[r])
          /\ Col(fact, is_profitable)[r] = Bool(FALSE)

\* the fact rows of an author
GroupOf(key) == {r \in DOMAIN fact.rows : Col(fact, author)[r] = key}

\* C5: the summary has one row per distinct non-missing author of the fact
\* table, and an ad-spend row whose campaign name failed key extraction
\* creates and feeds no summary row.
C5_AuthorGrouping ==
    Summarized =>
        /\ Len(authors.rows)
              = Cardinality({c \in Range(Col(fact, author)) : ~isna(c)})
        /\ \A a, b \in DOMAIN authors.rows :
              a # b => Col(authors, author)[a] # Col(authors, author)[b]
        /\ \A r \in DOMAIN fact.rows :
              (isna(Col(fact, author)[r]) \/ NameFails(lineage[r][1])) =>
                  \A a \in DOMAIN authors.rows : r \notin GroupOf(Col(authors, author)[a])

\* the rows of an author whose roi is defined
DefinedRoi(key) == {r \in GroupOf(key) : ~isna(Col(fact, roi)[r])}

\* the product of the denominators of the roi of the rows of S
RECURSIVE DenProduct(_)
DenProduct(S) ==
    IF S = {} THEN 1
    ELSE LET r == CHOOSE x \in S : TRUE
         IN  Col(fact, roi)[r].d * DenProduct(S \ {r})

\* the sum of the roi of the rows of S, times their common denominator L
RECURSIVE ScaledRoiSum(_, _)
ScaledRoiSum(S, L) ==
    IF S = {} THEN 0
    ELSE LET r == CHOOSE x \in S : TRUE
         IN  Col(fact, roi)[r].n * (L \div Col(fact, roi)[r].d) + ScaledRoiSum(S \ {r}, L)

\* C7: avg_roi of an author is the sum of the defined roi of the author's rows
\* divided by their number; rows with undefined roi count in neither.
C7_MeanSkipsUndefined ==
    Summarized =>
        \A a \in DOMAIN authors.rows :
            LET D == DefinedRoi(Col(authors, author)[a])
                avg == Col(authors, avg_roi)[a]
            IN  IF D = {} THEN isna(avg)
                ELSE /\ avg.k = "frac"
                     /\ avg.n * Cardinality(D) * DenProduct(D)
                           = avg.d * ScaledRoiSum(D, DenProduct(D))

\* an author with two rows, roi undefined and roi 2.0, and avg_roi 2.0
C7_Witness ==
    /\ Summarized
    /\ \E a \in DOMAIN authors.rows :
          /\ Cardinality(GroupOf(Col(authors, author)[a])) = 2
          /\ \E r \in GroupOf(Col(authors, author)[a]) :
                Col(fact, spend)[r] = Num(0) /\ isna(Col(fact, roi)[r])
          /\ \E r \in GroupOf(Col(authors, author)[a]) : Col(fact, roi)[r] = Frac(2, 1)
          /\ Col(authors, avg_roi)[a] = Frac(2, 1)

\* the sum of the numbers among the cells of the rows of S
RECURSIVE SumOver(_, _)
SumOver(S, cells) ==
    IF S = {} THEN 0
    ELSE LET r == CHOOSE x \in S : TRUE
         IN  (IF cells[r].k = "num" THEN cells[r].v ELSE 0) + SumOver(S \ {r}, cells)

\* the rows of an author whose spend is defined
WithSpend(key) == {r \in GroupOf(key) : ~isna(Col(fact, spend)[r])}

\* C10: total_revenue of an author sums the revenue of all the author's rows;
\* total_spend and total_profit sum over the rows with defined spend only; so
\* total_profit = total_revenue - total_spend when every row has a spend.
C10_SummaryAccounting ==
    Summarized =>
        \A a \in DOMAIN authors.rows :
            LET key == Col(authors, author)[a]
            IN  /\ Col(authors, total_revenue)[a]
                      = Num(SumOver(GroupOf(key), Col(fact, total_revenue)))
                /\ Col(authors, total_spend)[a]
                      = Num(SumOver(WithSpend(key), Col(fact, spend)))
                /\ Col(authors, total_profit)[a]
                      = Num(SumOver(WithSpend(key), Col(fact, total_revenue))
                            - SumOver(WithSpend(key), Col(fact, spend)))
                /\ WithSpend(key) = GroupOf(key) =>
                      Col(authors, total_profit)[a].v
                          = Col(authors, total_revenue)[a].v - Col(authors, total_spend)[a].v

\* an author with two rows that have different spends, both defined, whose
\* total_profit is total_revenue - total_spend
C10_Witness ==
    /\ Summarized
    /\ \E a \in DOMAIN authors.rows :
          /\ Cardinality(GroupOf(Col(authors, author)[a])) = 2
          /\ WithSpend(Col(authors, author)[a]) = GroupOf(Col(authors, author)[a])
          /\ Cardinality({Col(fact, spend)[r] : r \in GroupOf(Col(authors, author)[a])}) = 2
          /\ Col(authors, total_spend)[a].v > 0
          /\ Col(authors, total_profit)[a].v
                = Col(authors, total_revenue)[a].v - Col(authors, total_spend)[a].v
=============================================================================
